---- MODULE Spec2Model ----
(***************************************************************************)
(* Invoice generator: the order form's totals, the sequential invoice      *)
(* counter kept in localStorage, the POST /api/invoices handler over the   *)
(* invoices / invoice_items tables, and the PDF button's creation flow.    *)
(*                                                                         *)
(* Each part has its own specification (SpecForm, SpecCounter, ...); a     *)
(* specification leaves the variables of the other parts at their initial  *)
(* values.                                                                 *)
(***************************************************************************)
EXTENDS Integers, Sequences, FiniteSets

VARIABLES
    customerName, \* order-form.tsx: useState("")
    items,      \* order-form.tsx: useState<OrderItem[]>
    discount,   \* order-form.tsx: useState(0)
    stored,     \* localStorage["invoice_generator_counter"]: a string, or Null
    now,        \* the wall clock, in months (12 * year + getMonth())
    log,        \* history: the InvoiceCounter calls made so far, with results
    tabs,       \* per browser tab: where its generateInvoiceNumber call stands
    invoices,   \* table invoices: a set of rows
    invoice_items, \* table invoice_items: a set of rows
    nextId,     \* the ids gen_random_uuid() has given out so far
    req,        \* the POST /api/invoices request being handled
    flow,       \* the PDF button's generatePdf run (saving variant)
    pdfs,       \* history: the invoice numbers of the PDFs produced
    tick,       \* the wall clock of the saving variant, in half minutes
    storage,    \* the runtime's localStorage: how the counter's store can be reached
    call        \* the last call of a renderer or formatter function: input and outcome

vars == <<customerName, items, discount, stored, now, log, tabs,
          invoices, invoice_items, nextId, req, flow, pdfs, tick, storage, call>>

formVars == <<customerName, items, discount>>
counterVars == <<stored, now, log, tabs>>
storeVars == <<invoices, invoice_items, nextId, req>>
flowVars == <<flow, pdfs, tick>>
envVars == <<storage, call>>

(***************************************************************************)
(* Bounds of the model.                                                    *)
(***************************************************************************)
MaxItems == 2
MaxCalls == 4       \* InvoiceCounter calls recorded in the log
MaxRequests == 3    \* POST requests handled
MaxFlows == 2       \* generatePdf runs
MaxTicks == 2       \* half minutes the clock of the saving variant advances

(***************************************************************************)
(* ORDER FORM (src/components/order-form.tsx)                              *)
(*                                                                         *)
(* Numbers are JavaScript numbers.  The values that can be typed are drawn *)
(* from small sets of whole numbers, chosen so that subtotal * discount is *)
(* always a multiple of 100: the division by 100 is then exact and \div    *)
(* gives the quotient the code computes.  The result of parseInt /         *)
(* parseFloat on the typed text is <<n>> for a number n and <<>> for NaN   *)
(* (an empty field, a lone minus sign).                                    *)
(***************************************************************************)
NaN == <<>>

TypedQuantities == {NaN, <<-1>>, <<0>>, <<1>>, <<2>>}
TypedRates == {NaN, <<-50>>, <<0>>, <<50>>, <<100>>}
TypedDiscounts == {NaN, <<0>>, <<10>>, <<100>>, <<150>>}
TypedCustomers == {"", "Acme"}

\* Date.now() readings at which addItem may run; two clicks can fall in the
\* same millisecond.
ClockReadings == {1, 2}

\* `x || 0` applied to the result of parseInt / parseFloat: NaN and 0 give 0.
OrZero(v) == IF v = NaN THEN 0 ELSE v[1]

\* An item's name enters no computation; it stays the empty string a new item
\* is given.  Item ids are strings, held as tuples: <<"1">> is "1" and <<"item", t>> is
\* `item-${Date.now()}` for the clock reading t.
ItemId(t) == <<"item", t>>

InitialItem == [id |-> <<"1">>, name |-> "", quantity |-> 1, rate |-> 0]

NewItem(t) == [id |-> ItemId(t), name |-> "", quantity |-> 1, rate |-> 0]

\* items.filter(pred) for the predicate "item.id !== id"
RECURSIVE FilterOutId(_, _)
FilterOutId(s, id) ==
    IF s = <<>> THEN <<>>
    ELSE IF Head(s).id # id THEN <<Head(s)>> \o FilterOutId(Tail(s), id)
         ELSE FilterOutId(Tail(s), id)

\* items.map(item => item.id === id ? { ...item, [field]: value } : item)
MapUpdate(s, id, field, value) ==
    [i \in 1..Len(s) |->
        IF s[i].id = id THEN [s[i] EXCEPT ![field] = value] ELSE s[i]]

\* items.reduce((sum, item) => sum + item.quantity * item.rate, 0)
RECURSIVE Reduce(_, _)
Reduce(s, sum) ==
    IF s = <<>> THEN sum
    ELSE Reduce(Tail(s), sum + Head(s).quantity * Head(s).rate)

subtotal == Reduce(items, 0)

\* a discount taken as a factor rather than a percentage
discountAmount_NoPercent == subtotal * discount

discountAmount == (subtotal * discount) \div 100

total == subtotal - discountAmount

\* the object handed to <PdfDownloadButton invoiceData={...} />
invoiceData ==
    [customerName |-> customerName, items |-> items, discount |-> discount,
     subtotal |-> subtotal, discountAmount |-> discountAmount, total |-> total]

(***************************************************************************)
(* INVOICE COUNTER (src/utils/invoice-counter.ts)                          *)
(*                                                                         *)
(* Strings are tuples of one-character strings, so that the codes are      *)
(* compared as the strings the code builds.  Null is getItem's answer for  *)
(* a key that was never set.                                               *)
(***************************************************************************)
Null == <<"null">>

Digits == <<"0", "1", "2", "3", "4", "5", "6", "7", "8", "9">>

PREFIX == <<"I", "N", "V">>

\* Number.prototype.toString() of an integer
RECURSIVE NatToString(_)
NatToString(n) ==
    IF n < 10 THEN <<Digits[n + 1]>>
    ELSE NatToString(n \div 10) \o <<Digits[(n % 10) + 1]>>

toString(n) == IF n < 0 THEN <<"-">> \o NatToString(-n) ELSE NatToString(n)

DigitValue(c) == CHOOSE d \in 0..9 : Digits[d + 1] = c

IsDigit(c) == \E d \in 0..9 : Digits[d + 1] = c

\* the value of the longest prefix of s made of digits, continuing from acc
RECURSIVE ParseDigits(_, _)
ParseDigits(s, acc) ==
    IF s = <<>> \/ ~IsDigit(Head(s)) THEN acc
    ELSE ParseDigits(Tail(s), 10 * acc + DigitValue(Head(s)))

\* Number.parseInt(s, 10) of a string that starts with an integer literal (every
\* string the counter stores does): an optional minus sign, then the digits.
ParseInt(s) ==
    IF Head(s) = "-" THEN 0 - ParseDigits(Tail(s), 0) ELSE ParseDigits(s, 0)

\* String.prototype.padStart(n, c)
RECURSIVE PadStart(_, _, _)
PadStart(s, n, c) == IF Len(s) >= n THEN s ELSE PadStart(<<c>> \o s, n, c)

\* new Date().getFullYear() and new Date().getMonth() at clock reading k
getFullYear(k) == k \div 12
getMonth(k) == k % 12

April2024 == 12 * 2024 + 3
December2024 == 12 * 2024 + 11

\* the months the clock passes through, and the months a session may start in
Months == {April2024, April2024 + 1, December2024, December2024 + 1}
StartMonths == {April2024, December2024}

\* counter values found in localStorage when the session starts (besides Null)
StartCounters == {1, 7, 9998}

\* values given to setCounter
SetValues == {1, 7}

\* lines 9-14; typeof window is "object" in the browser
getCurrentCounter(st) == IF st # Null /\ st # <<>> THEN ParseInt(st) ELSE 1

\* the counter written back without the + 1
incrementCounter_NoAdvance(st) ==
    LET current == getCurrentCounter(st)
    IN [current |-> current, stored |-> toString(current)]

\* the counter advanced by two
incrementCounter_SkipsOne(st) ==
    LET current == getCurrentCounter(st)
    IN [current |-> current, stored |-> toString(current + 2)]

\* lines 17-22: the value incrementCounter returns and what it leaves in
\* localStorage
incrementCounter(st) ==
    LET current == getCurrentCounter(st)
        next == current + 1
    IN [current |-> current, stored |-> toString(next)]

\* lines 27-31 and 37-40: the code for counter value n, with the year read at
\* clock reading k1 and the month read at clock reading k2
InvoiceNumber(n, k1, k2) ==
    PREFIX \o <<"-">> \o toString(getFullYear(k1)) \o <<"-">>
           \o PadStart(toString(getMonth(k2) + 1), 2, "0") \o <<"-">>
           \o PadStart(toString(n), 4, "0")

\* lines 25-32: the code returned and the value left in localStorage
generateInvoiceNumberResult(st, k1, k2) ==
    LET inc == incrementCounter(st)
    IN [counter |-> inc.current, stored |-> inc.stored,
        code |-> InvoiceNumber(inc.current, k1, k2)]

\* a preview that allocates
getCurrentInvoiceNumberResult_Allocates(st, k1, k2) ==
    generateInvoiceNumberResult(st, k1, k2)

\* lines 35-41: the code returned and the value left in localStorage
getCurrentInvoiceNumberResult(st, k1, k2) ==
    LET counter == getCurrentCounter(st)
    IN [counter |-> counter, stored |-> st,
        code |-> InvoiceNumber(counter, k1, k2)]

getTotalInvoicesGenerated == getCurrentCounter(stored) - 1

\* a reset that leaves the counter as it is
resetCounterStored_Keeps(st) == st

\* lines 44-46: what resetCounter leaves in localStorage
resetCounterStored(st) == <<"1">>

\* the clock readings of two successive `new Date()`: the second is the first,
\* or the month after it when the month ends between the two
SecondReading(k1) == {k \in {k1, k1 + 1} : k \in Months}

LogEntry(op, tab, n, code, after, k1, k2) ==
    [op |-> op, tab |-> tab, counter |-> n, code |-> code,
     before |-> stored, after |-> after, yearAt |-> k1, monthAt |-> k2]

Tabs == {1, 2}

TabIdle == [pc |-> "idle", current |-> 0]

NoTabs == [t \in Tabs |-> TabIdle]

\* the counter part at rest, for the specifications of the other parts
CounterIdle ==
    /\ stored = Null
    /\ now = April2024
    /\ log = <<>>
    /\ tabs = NoTabs


(***************************************************************************)
(* INVOICE STORE (src/unnamed/part_006, the tables) and POST /api/invoices  *)
(* (src/app/api/invoices/route.ts)                                         *)
(*                                                                         *)
(* A row of invoices holds the columns the handler fills from the request  *)
(* and that a constraint or a property reads; the nullable contact and     *)
(* payment columns are left out.  Dates are day numbers; customer names    *)
(* and statuses are strings, "" also standing for a field the body does    *)
(* not have (the handler treats the two alike).  Every statement           *)
(* sent to the store can fail as a whole (the store is down or cannot be   *)
(* reached) and then changes nothing.                                      *)
(***************************************************************************)
\* a property the JSON body does not have (a tuple-string that is no string)
Undefined == <<"undefined">>

\* `!v` for an invoice number (a tuple-string): undefined and "" are falsy
Falsy(v) == v = Undefined \/ v = <<>>

\* invoice_date values: a date string is held as its day number, 0 stands for
\* a string new Date() cannot read, -1 for no invoice_date at all
InvalidDate == 0
NoDate == 0 - 1
SomeDay == 12 * 31

Statuses == {"draft", "sent", "paid", "overdue", "cancelled"}

\* line 112: 30 * 24 * 60 * 60 * 1000 ms after the invoice date
DueDate(day) == day + 30

NumberA == <<"I", "N", "V", "-", "A">>
NumberB == <<"I", "N", "V", "-", "B">>

GoodItem == [id |-> <<"1">>, name |-> "", quantity |-> 2, rate |-> 100]
\* an item without an id: invoice_items.item_id is NOT NULL
BadItem == [id |-> Undefined, name |-> "", quantity |-> 1, rate |-> 50]

BaseBody ==
    [invoice_number |-> NumberA, customer_name |-> "Acme", invoice_date |-> SomeDay,
     items |-> <<GoodItem>>, subtotal |-> 200, discount |-> 10,
     discount_amount |-> 20, total |-> 180, status |-> ""]

\* the request bodies a client sends: the base body with one or two fields changed
Bodies ==
    {[BaseBody EXCEPT !.invoice_number = n, !.items = i, !.status = st] :
        n \in {NumberA, NumberB}, i \in {<<GoodItem>>, <<BadItem>>, <<GoodItem, BadItem>>},
        st \in {"", "paid"}}
    \cup {[BaseBody EXCEPT !.invoice_number = Undefined],
          [BaseBody EXCEPT !.customer_name = ""],
          [BaseBody EXCEPT !.invoice_date = NoDate],
          [BaseBody EXCEPT !.invoice_date = InvalidDate],
          [BaseBody EXCEPT !.items = <<>>],
          [BaseBody EXCEPT !.status = "bogus"],
          [BaseBody EXCEPT !.total = 999]}

\* a check of the required fields that lets an empty items list through
MissingRequired_EmptyItemsAllowed(body) ==
    \/ Falsy(body.invoice_number)
    \/ body.customer_name = ""
    \/ body.invoice_date = NoDate

\* line 106: the required fields
MissingRequired(body) ==
    \/ Falsy(body.invoice_number)
    \/ body.customer_name = ""
    \/ body.invoice_date = NoDate
    \/ body.items = <<>>

\* lines 117-131: the row given to insert, with the id the store gives it
\* (part_006 line 3: DEFAULT gen_random_uuid())
InvoiceRow(id, body) ==
    [id |-> id,
     invoice_number |-> body.invoice_number,
     customer_name |-> body.customer_name,
     invoice_date |-> body.invoice_date,
     due_date |-> DueDate(body.invoice_date),
     subtotal |-> body.subtotal,
     discount |-> body.discount,
     discount_amount |-> body.discount_amount,
     total |-> body.total,
     status |-> IF body.status = "" THEN "draft" ELSE body.status]

\* lines 144-151
ItemRows(id, its) ==
    {[invoice_id |-> id, item_id |-> its[i].id, name |-> its[i].name,
      quantity |-> its[i].quantity, rate |-> its[i].rate,
      total |-> its[i].quantity * its[i].rate] : i \in 1..Len(its)}

\* a table without the UNIQUE constraint on invoice_number
InsertInvoiceError_NoUnique(row, down) ==
    IF down THEN "unavailable"
    ELSE IF row.status \notin Statuses THEN "23514"
    ELSE ""

\* part_006 lines 2-22: the error the store answers to an insert into invoices,
\* "" when it accepts the row.  Postgres checks the row's CHECK constraints
\* before it enters the row into the unique index.
InsertInvoiceError(row, down) ==
    IF down THEN "unavailable"
    ELSE IF row.status \notin Statuses THEN "23514"
    ELSE IF \E r \in invoices : r.invoice_number = row.invoice_number THEN "23505"
    ELSE ""

\* part_006 lines 25-34: the error the store answers to an insert into
\* invoice_items; the rows of one insert are accepted or refused together
InsertItemsError(rows, down) ==
    IF down THEN "unavailable"
    ELSE IF \E r \in rows : r.item_id = Undefined THEN "23502"
    ELSE ""

\* every error answered with 500
ErrorStatus_Always500(code) == 500

\* lines 135-141: the status answered to a failed insert into invoices
ErrorStatus(code) == IF code = "23505" THEN 409 ELSE 500

NoRequest ==
    [method |-> "", pc |-> "idle", n |-> 0, body |-> BaseBody, id |-> 0, status |-> 0,
     down |-> FALSE, duplicate |-> FALSE,
     before |-> [invoices |-> {}, invoice_items |-> {}]]

\* lines 99-112: the handler up to its first statement to the store.  A missing
\* field answers 400; a date string new Date() cannot read makes toISOString
\* (line 123) throw before anything is sent, which the catch answers with 500.
Received(body) ==
    [method |-> "POST",
     pc |-> IF MissingRequired(body) \/ body.invoice_date = InvalidDate
            THEN "done" ELSE "insertInvoice",
     n |-> req.n + 1, body |-> body, id |-> 0,
     status |-> IF MissingRequired(body) THEN 400
                ELSE IF body.invoice_date = InvalidDate THEN 500 ELSE 0,
     down |-> FALSE,
     duplicate |-> \E r \in invoices : r.invoice_number = body.invoice_number,
     before |-> [invoices |-> invoices, invoice_items |-> invoice_items]]

StoreIdle ==
    /\ invoices = {}
    /\ invoice_items = {}
    /\ nextId = 0
    /\ req = NoRequest

(***************************************************************************)
(* PDF BUTTON, saving variant (src/unnamed/part_001 lines 37-179)          *)
(***************************************************************************)
\* new Date() at clock reading t: half minutes after 09:59:00 of one day
getHours(t) == 9 + ((59 * 2 + t) \div 120)
getMinutes(t) == ((59 * 2 + t) \div 2) % 60
Today == <<"2", "0", "2", "4", "0", "4", "1", "5">>

\* lines 103-110: INV-YYYYMMDD-HHMM
generateTimestampInvoiceNumber(t) ==
    PREFIX \o <<"-">> \o Today \o <<"-">>
           \o PadStart(toString(getHours(t)), 2, "0")
           \o PadStart(toString(getMinutes(t)), 2, "0")

\* lines 64-80: the body saveInvoiceToDatabase posts
SaveBody(data, invoiceNumber) ==
    [invoice_number |-> invoiceNumber,
     customer_name |-> data.customerName,
     invoice_date |-> SomeDay,
     items |-> data.items,
     subtotal |-> data.subtotal,
     discount |-> data.discount,
     discount_amount |-> data.discountAmount,
     total |-> data.total,
     status |-> "draft"]

\* toast is the toast on the screen (the last one shown), toasts all the toasts
\* of the run in the order they were shown.  pdfBlob is the component's blob,
\* held as the invoice number embedded in it (<<>> for null), and
\* currentInvoiceNumber the state of that name ("" at first); both outlive a run.
NoFlow ==
    [pc |-> "idle", n |-> 0, invoiceNumber |-> <<>>, saves |-> <<>>,
     dbResult |-> FALSE, rendered |-> FALSE, toast |-> "", toasts |-> <<>>,
     pdfBlob |-> <<>>, currentInvoiceNumber |-> <<>>]

\* a run begins: what the component keeps from the runs before
NewFlow ==
    [NoFlow EXCEPT !.n = flow.n + 1, !.pdfBlob = flow.pdfBlob,
                   !.currentInvoiceNumber = flow.currentInvoiceNumber]

\* the fallback of `x || "INV-0001"`
INV0001 == <<"I", "N", "V", "-", "0", "0", "0", "1">>

\* the handlers that download or share the blob
ShareHandlers ==
    {"downloadPdf", "shareViaEmail", "shareViaWhatsApp", "shareViaNativeAPI",
     "sendViaMessenger"}

\* a save that reports no failure
saveInvoiceToDatabaseToasts_Silent(ok) == <<>>

\* lines 83-100: the toast saveInvoiceToDatabase itself shows, none when the
\* response is ok and the warning of the catch otherwise
saveInvoiceToDatabaseToasts(ok) ==
    IF ok THEN <<>> ELSE <<"Database Warning">>

FlowIdle ==
    /\ flow = NoFlow
    /\ pdfs = {}
    /\ tick = 0

\* no renderer call made yet
NoCall == [fn |-> "", arg |-> <<>>, out |-> <<>>]

\* a browser whose localStorage works, and no renderer call yet
EnvIdle ==
    /\ storage = "ok"
    /\ call = NoCall

FormStart ==
    /\ customerName = ""
    /\ items = <<InitialItem>>
    /\ discount = 0

InitForm ==
    /\ FormStart
    /\ CounterIdle
    /\ StoreIdle
    /\ FlowIdle
    /\ EnvIdle

addItem ==
    /\ Len(items) < MaxItems
    /\ \E t \in ClockReadings : items' = Append(items, NewItem(t))
    /\ UNCHANGED <<customerName, discount, counterVars, storeVars, flowVars, envVars>>

\* the Remove button is disabled while items.length === 1
removeItem ==
    /\ Len(items) # 1
    /\ \E i \in 1..Len(items) : items' = FilterOutId(items, items[i].id)
    /\ UNCHANGED <<customerName, discount, counterVars, storeVars, flowVars, envVars>>

setCustomerName ==
    /\ \E typed \in TypedCustomers : customerName' = typed
    /\ UNCHANGED <<items, discount, counterVars, storeVars, flowVars, envVars>>

updateQuantity ==
    /\ \E i \in 1..Len(items), typed \in TypedQuantities :
          items' = MapUpdate(items, items[i].id, "quantity", OrZero(typed))
    /\ UNCHANGED <<customerName, discount, counterVars, storeVars, flowVars, envVars>>

updateRate ==
    /\ \E i \in 1..Len(items), typed \in TypedRates :
          items' = MapUpdate(items, items[i].id, "rate", OrZero(typed))
    /\ UNCHANGED <<customerName, discount, counterVars, storeVars, flowVars, envVars>>

setDiscount ==
    /\ \E typed \in TypedDiscounts : discount' = OrZero(typed)
    /\ UNCHANGED <<customerName, items, counterVars, storeVars, flowVars, envVars>>

NextForm ==
    \/ setCustomerName
    \/ addItem
    \/ removeItem
    \/ updateQuantity
    \/ updateRate
    \/ setDiscount

SpecForm == InitForm /\ [][NextForm]_vars

InitCounter ==
    /\ FormStart
    /\ StoreIdle
    /\ FlowIdle
    /\ EnvIdle
    /\ stored \in {Null} \cup {toString(n) : n \in StartCounters}
    /\ now \in StartMonths
    /\ log = <<>>
    /\ tabs = NoTabs

\* lines 25-32, one synchronous call
generateInvoiceNumber ==
    /\ Len(log) < MaxCalls
    /\ \E k2 \in SecondReading(now) :
          LET r == generateInvoiceNumberResult(stored, now, k2)
          IN /\ stored' = r.stored
             /\ now' = k2
             /\ log' = Append(log, LogEntry("generate", 1, r.counter, r.code,
                                            r.stored, now, k2))
    /\ UNCHANGED <<formVars, tabs, storeVars, flowVars, envVars>>

\* lines 35-41
getCurrentInvoiceNumber ==
    /\ Len(log) < MaxCalls
    /\ \E k2 \in SecondReading(now) :
          LET r == getCurrentInvoiceNumberResult(stored, now, k2)
          IN /\ stored' = r.stored
             /\ now' = k2
             /\ log' = Append(log, LogEntry("peek", 1, r.counter, r.code,
                                            r.stored, now, k2))
    /\ UNCHANGED <<formVars, tabs, storeVars, flowVars, envVars>>

\* lines 44-46
resetCounter ==
    /\ Len(log) < MaxCalls
    /\ stored' = resetCounterStored(stored)
    /\ log' = Append(log, LogEntry("reset", 1, 1, <<>>, resetCounterStored(stored),
                                   now, now))
    /\ UNCHANGED <<formVars, now, tabs, storeVars, flowVars, envVars>>

\* lines 54-56
setCounter ==
    /\ Len(log) < MaxCalls
    /\ \E value \in SetValues :
          /\ stored' = toString(value)
          /\ log' = Append(log, LogEntry("set", 1, value, <<>>, toString(value), now, now))
    /\ UNCHANGED <<formVars, now, tabs, storeVars, flowVars, envVars>>

\* time passes between calls
Tick ==
    /\ now + 1 \in Months
    /\ now' = now + 1
    /\ UNCHANGED <<formVars, stored, log, tabs, storeVars, flowVars, envVars>>

NextCounter ==
    \/ generateInvoiceNumber
    \/ getCurrentInvoiceNumber
    \/ resetCounter
    \/ setCounter
    \/ Tick

SpecCounter == InitCounter /\ [][NextCounter]_vars

(***************************************************************************)
(* Two browser tabs on one localStorage, each running                      *)
(* generateInvoiceNumber.  A tab's JavaScript runs to completion, but the  *)
(* other tab is another thread: its getItem and setItem can fall between   *)
(* this tab's getItem (line 18) and setItem (line 20).                     *)
(***************************************************************************)
InitTabs ==
    /\ FormStart
    /\ StoreIdle
    /\ FlowIdle
    /\ EnvIdle
    /\ stored \in {Null} \cup {toString(n) : n \in StartCounters}
    /\ now \in StartMonths
    /\ log = <<>>
    /\ tabs = NoTabs

InFlight == {t \in Tabs : tabs[t].pc # "idle"}

\* line 18: const current = this.getCurrentCounter()
TabRead(t) ==
    /\ tabs[t].pc = "idle"
    /\ Len(log) + Cardinality(InFlight) < MaxCalls
    /\ tabs' = [tabs EXCEPT ![t] = [pc |-> "read", current |-> getCurrentCounter(stored)]]
    /\ UNCHANGED <<formVars, stored, now, log, storeVars, flowVars, envVars>>

\* lines 19-21 and 26-31: write current + 1, return the code built from current
TabWriteReturn(t) ==
    /\ tabs[t].pc = "read"
    /\ \E k2 \in SecondReading(now) :
          LET current == tabs[t].current
              next == current + 1
          IN /\ stored' = toString(next)
             /\ now' = k2
             /\ log' = Append(log, LogEntry("generate", t, current,
                                            InvoiceNumber(current, now, k2),
                                            toString(next), now, k2))
    /\ tabs' = [tabs EXCEPT ![t] = TabIdle]
    /\ UNCHANGED <<formVars, storeVars, flowVars, envVars>>

NextTabs ==
    \/ \E t \in Tabs : TabRead(t)
    \/ \E t \in Tabs : TabWriteReturn(t)
    \/ Tick

SpecTabs == InitTabs /\ [][NextTabs]_vars

(***************************************************************************)
(* POST /api/invoices, statement by statement                              *)
(***************************************************************************)
InitStore ==
    /\ FormStart
    /\ CounterIdle
    /\ StoreIdle
    /\ FlowIdle
    /\ EnvIdle

\* lines 99-112, for a request from any client
POST ==
    /\ req.pc \in {"idle", "done"}
    /\ req.n < MaxRequests
    /\ \E body \in Bodies : req' = Received(body)
    /\ UNCHANGED <<formVars, counterVars, invoices, invoice_items, nextId, flowVars, envVars>>

\* lines 114-141
POST_insertInvoice ==
    /\ req.pc = "insertInvoice"
    /\ \E down \in BOOLEAN :
          LET row == InvoiceRow(nextId + 1, req.body)
              error == InsertInvoiceError(row, down)
          IN IF error # ""
             THEN /\ req' = [req EXCEPT !.pc = "done", !.status = ErrorStatus(error),
                                        !.down = down]
                  /\ UNCHANGED <<invoices, nextId>>
             ELSE /\ invoices' = invoices \cup {row}
                  /\ nextId' = nextId + 1
                  /\ req' = [req EXCEPT !.pc = "insertItems", !.id = nextId + 1]
    /\ UNCHANGED <<formVars, counterVars, invoice_items, flowVars, envVars>>

\* lines 143-168
POST_insertItems ==
    /\ req.pc = "insertItems"
    /\ \E down \in BOOLEAN :
          LET rows == ItemRows(req.id, req.body.items)
              error == InsertItemsError(rows, down)
          IN IF error # ""
             THEN /\ req' = [req EXCEPT !.pc = "rollback", !.down = down]
                  /\ UNCHANGED invoice_items
             ELSE /\ invoice_items' = invoice_items \cup rows
                  /\ req' = [req EXCEPT !.pc = "done", !.status = 201]
    /\ UNCHANGED <<formVars, counterVars, invoices, nextId, flowVars, envVars>>

\* lines 155-160: the delete's own result is not looked at
POST_rollback ==
    /\ req.pc = "rollback"
    /\ \E down \in BOOLEAN :
          /\ invoices' = IF down THEN invoices
                         ELSE {r \in invoices : r.id # req.id}
          /\ invoice_items' = IF down THEN invoice_items
                              ELSE {r \in invoice_items : r.invoice_id # req.id}
          /\ req' = [req EXCEPT !.pc = "done", !.status = 500,
                                !.down = req.down \/ down]
    /\ UNCHANGED <<formVars, counterVars, nextId, flowVars, envVars>>

NextStore ==
    \/ POST
    \/ POST_insertInvoice
    \/ POST_insertItems
    \/ POST_rollback

SpecStore == InitStore /\ [][NextStore]_vars

(***************************************************************************)
(* generatePdf of the saving variant (src/unnamed/part_001 lines 112-179), *)
(* await by await.  The button is disabled while a run is under way, and   *)
(* the form is not edited during a run.                                    *)
(***************************************************************************)
InitFlow ==
    /\ customerName \in TypedCustomers
    /\ items = <<InitialItem>>
    /\ discount = 0
    /\ CounterIdle
    /\ StoreIdle
    /\ FlowIdle
    /\ EnvIdle

\* lines 113-133 and 57-81: the invoice number is made, then fetch sends the
\* POST; when the network is down fetch rejects, the catch of lines 92-99
\* shows the warning and saveInvoiceToDatabase returns null
generatePdf ==
    /\ flow.pc \in {"idle", "done"}
    /\ flow.pdfBlob = <<>>
    /\ flow.n < MaxFlows
    /\ LET invoiceNumber == generateTimestampInvoiceNumber(tick)
       IN \E network \in BOOLEAN :
             IF network
             THEN /\ flow' = [NewFlow EXCEPT !.pc = "saving",
                                             !.invoiceNumber = invoiceNumber]
                  /\ req' = Received(SaveBody(invoiceData, invoiceNumber))
             ELSE /\ flow' = [NewFlow EXCEPT !.pc = "render",
                                            !.invoiceNumber = invoiceNumber,
                                            !.toast = "Database Warning",
                                            !.toasts = saveInvoiceToDatabaseToasts(FALSE)]
                  /\ req' = req
    /\ UNCHANGED <<formVars, counterVars, invoices, invoice_items, nextId, pdfs, tick, envVars>>

\* lines 83-100 and 133: the response arrives; anything but 2xx throws into the
\* catch, which shows the warning and returns null
saveInvoiceToDatabase_response ==
    /\ flow.pc = "saving"
    /\ req.pc = "done"
    /\ LET ok == req.status = 201
           attempt == [code |-> flow.invoiceNumber, status |-> req.status]
       IN flow' = [flow EXCEPT !.pc = "render",
                               !.saves = Append(flow.saves, attempt),
                               !.dbResult = ok,
                               !.toast = IF ok THEN "" ELSE "Database Warning",
                               !.toasts = flow.toasts \o saveInvoiceToDatabaseToasts(ok)]
    /\ UNCHANGED <<formVars, counterVars, storeVars, pdfs, tick, envVars>>

\* lines 135-178: the PDF is rendered from the data with the invoice number;
\* toBlob may throw, and then the catch of lines 169-175 reports the error
generatePdf_render ==
    /\ flow.pc = "render"
    /\ \E rendered \in BOOLEAN :
          IF rendered
          THEN /\ pdfs' = pdfs \cup {flow.invoiceNumber}
               /\ flow' = LET shown == IF flow.dbResult THEN "Invoice Generated & Saved!"
                                       ELSE "Invoice Generated!"
                          IN [flow EXCEPT !.pc = "done", !.rendered = TRUE,
                                          !.pdfBlob = flow.invoiceNumber,
                                          !.toast = shown,
                                          !.toasts = Append(flow.toasts, shown)]
          ELSE /\ pdfs' = pdfs
               /\ flow' = [flow EXCEPT !.pc = "done", !.toast = "Error",
                                       !.toasts = Append(flow.toasts, "Error")]
    /\ UNCHANGED <<formVars, counterVars, storeVars, tick, envVars>>

\* part_001 lines 37-46: the page is loaded again and the component starts
\* anew, without blob; what is stored and what was downloaded stay
PdfDownloadButton_mount ==
    /\ flow.pc = "done"
    /\ flow' = [NoFlow EXCEPT !.n = flow.n]
    /\ UNCHANGED <<formVars, counterVars, storeVars, pdfs, tick, envVars>>

\* part_001 lines 181-200 (downloadPdf) and the share handlers after it: the
\* buttons are there once a blob is held (line 529); the number in the filename
\* and in the message is invoiceData.invoiceNumber || "INV-0001", and the
\* invoiceData of the form (order-form.tsx lines 83-91) has no invoiceNumber
share(handler) ==
    /\ flow.pdfBlob # <<>>
    /\ call' = [fn |-> handler, arg |-> flow.pdfBlob, out |-> INV0001]
    /\ UNCHANGED <<formVars, counterVars, storeVars, flowVars, storage>>

\* time passes
FlowTick ==
    /\ tick < MaxTicks
    /\ tick' = tick + 1
    /\ UNCHANGED <<formVars, counterVars, storeVars, flow, pdfs, envVars>>

NextFlow ==
    \/ generatePdf
    \/ POST_insertInvoice
    \/ POST_insertItems
    \/ POST_rollback
    \/ saveInvoiceToDatabase_response
    \/ generatePdf_render
    \/ PdfDownloadButton_mount
    \/ \E handler \in ShareHandlers : share(handler)
    \/ FlowTick

SpecFlow == InitFlow /\ [][NextFlow]_vars

(***************************************************************************)
(* InvoiceCounter in a runtime whose localStorage may be out of reach, and *)
(* generatePdf of the sequential variant (src/unnamed/part_002 lines       *)
(* 124-185), which allocates its number from the counter.                  *)
(*                                                                         *)
(* storage is "ok" in a browser whose localStorage works; "none" where     *)
(* there is neither window nor localStorage (server rendering: the         *)
(* identifier localStorage does not resolve, which is a ReferenceError);   *)
(* "denied" in a browser that refuses access to localStorage (reading the  *)
(* property throws SecurityError); "full" in a browser whose getItem       *)
(* answers but whose setItem throws QuotaExceededError.                    *)
(***************************************************************************)
StorageStates == {"ok", "none", "denied", "full"}

\* what a call that threw leaves in place of its code
Threw == <<"Error">>

\* invoice-counter.ts lines 9-14
getCurrentCounterIn(env, st) ==
    IF env = "none" THEN [threw |-> FALSE, value |-> 1]
    ELSE IF env = "denied" THEN [threw |-> TRUE, value |-> 0]
    ELSE [threw |-> FALSE, value |-> getCurrentCounter(st)]

\* a variant whose write is guarded like the read: without a store it hands
\* out the value it read and writes nothing
incrementCounterIn_Fallback(env, st) ==
    IF env = "ok"
    THEN [threw |-> FALSE, current |-> incrementCounter(st).current,
          stored |-> incrementCounter(st).stored]
    ELSE [threw |-> FALSE, current |-> 1, stored |-> st]

\* invoice-counter.ts lines 17-22: setItem (line 20) is reached in every
\* runtime in which the read did not throw, and throws in all but "ok"
incrementCounterIn(env, st) ==
    IF getCurrentCounterIn(env, st).threw \/ env # "ok"
    THEN [threw |-> TRUE, current |-> 0, stored |-> st]
    ELSE [threw |-> FALSE, current |-> incrementCounter(st).current,
          stored |-> incrementCounter(st).stored]

\* invoice-counter.ts lines 25-32
generateInvoiceNumberIn(env, st, k1, k2) ==
    LET r == incrementCounterIn(env, st)
    IN IF r.threw
       THEN [threw |-> TRUE, counter |-> 0, code |-> Threw, stored |-> st]
       ELSE [threw |-> FALSE, counter |-> r.current,
             code |-> InvoiceNumber(r.current, k1, k2), stored |-> r.stored]

\* part_002 lines 37-51: the component after its mount effect, which shows the
\* next invoice number; the effect does not run on the server, and where
\* reading localStorage throws the state keeps its "".  n counts the runs.
MountedSequential(n, k1, k2) ==
    [NoFlow EXCEPT !.n = n,
                   !.currentInvoiceNumber =
                       IF storage \in {"ok", "full"}
                       THEN getCurrentInvoiceNumberResult(stored, k1, k2).code
                       ELSE <<>>]

InitSequential ==
    /\ FormStart
    /\ StoreIdle
    /\ pdfs = {}
    /\ tick = 0
    /\ call = NoCall
    /\ storage \in StorageStates
    /\ stored \in {Null} \cup {toString(n) : n \in StartCounters}
    /\ now \in StartMonths
    /\ log = <<>>
    /\ tabs = NoTabs
    /\ flow = MountedSequential(0, now, now)

\* InvoiceCounter.generateInvoiceNumber() called from any code, in any runtime
InvoiceCounter_generateInvoiceNumber ==
    /\ Len(log) < MaxCalls
    /\ flow.pc \in {"idle", "done"}
    /\ \E k2 \in SecondReading(now) :
          LET r == generateInvoiceNumberIn(storage, stored, now, k2)
          IN /\ stored' = r.stored
             /\ now' = k2
             /\ log' = Append(log, LogEntry("generate", 1, r.counter, r.code,
                                            r.stored, now, k2))
    /\ UNCHANGED <<formVars, tabs, storeVars, flowVars, envVars>>

\* part_002 lines 124-146 and 176-185: a click on Generate PDF, up to the
\* first await.  isClient is set by an effect, which runs only in a browser.
\* An exception of generateInvoiceNumber lands in the catch, which shows the
\* Error toast.
generatePdfSequential ==
    /\ storage # "none"
    /\ flow.pc \in {"idle", "done"}
    /\ flow.pdfBlob = <<>>
    /\ flow.n < MaxFlows
    /\ Len(log) < MaxCalls
    /\ \E k2 \in SecondReading(now) :
          LET r == generateInvoiceNumberIn(storage, stored, now, k2)
          IN /\ stored' = r.stored
             /\ now' = k2
             /\ log' = Append(log, LogEntry("generate", 1, r.counter, r.code,
                                            r.stored, now, k2))
             /\ flow' = IF r.threw
                        THEN [NewFlow EXCEPT !.pc = "done",
                                             !.toast = "Error",
                                             !.toasts = <<"Error">>]
                        ELSE [NewFlow EXCEPT !.pc = "render",
                                             !.invoiceNumber = r.code]
    /\ UNCHANGED <<formVars, tabs, storeVars, pdfs, tick, envVars>>

\* part_002 lines 147-185: the PDF is rendered, kept as the blob and saved to
\* the folder, and the number shown is set to getCurrentInvoiceNumber() (line
\* 163); toBlob may throw, which the catch reports
generatePdfSequential_render ==
    /\ flow.pc = "render"
    /\ \E rendered \in BOOLEAN, saved \in BOOLEAN, k2 \in SecondReading(now) :
          IF rendered
          THEN /\ pdfs' = pdfs \cup {flow.invoiceNumber}
               /\ now' = k2
               /\ flow' = LET shown == IF saved THEN "Invoice Generated & Saved!"
                                       ELSE "Invoice Generated!"
                          IN [flow EXCEPT !.pc = "done", !.rendered = TRUE,
                                          !.pdfBlob = flow.invoiceNumber,
                                          !.currentInvoiceNumber =
                                              getCurrentInvoiceNumberResult(stored, now, k2).code,
                                          !.toast = shown,
                                          !.toasts = Append(flow.toasts, shown)]
          ELSE /\ pdfs' = pdfs
               /\ now' = now
               /\ flow' = [flow EXCEPT !.pc = "done", !.toast = "Error",
                                       !.toasts = Append(flow.toasts, "Error")]
    /\ UNCHANGED <<formVars, stored, log, tabs, storeVars, tick, envVars>>

\* part_002 lines 187-194: the Reset Counter button, which is there while no
\* blob is held (line 532).  resetCounter writes with setItem, which throws
\* where the store cannot be written; the handler catches nothing, so the
\* state and the screen stay as they were.
resetInvoiceCounter ==
    /\ storage # "none"
    /\ flow.pdfBlob = <<>>
    /\ Len(log) < MaxCalls
    /\ IF storage = "ok"
       THEN \E k2 \in SecondReading(now) :
               LET written == resetCounterStored(stored)
               IN /\ stored' = written
                  /\ now' = k2
                  /\ log' = Append(log, LogEntry("reset", 1, 1, <<>>, written, now, now))
                  /\ flow' = [flow EXCEPT
                                !.currentInvoiceNumber =
                                    getCurrentInvoiceNumberResult(written, now, k2).code,
                                !.toast = "Counter Reset",
                                !.toasts = Append(flow.toasts, "Counter Reset")]
       ELSE /\ log' = Append(log, LogEntry("reset", 1, 0, Threw, stored, now, now))
            /\ UNCHANGED <<stored, now, flow>>
    /\ UNCHANGED <<formVars, tabs, storeVars, pdfs, tick, envVars>>

\* part_002 lines 37-51: the page is loaded again and the component starts
\* anew, without blob; the counter and what was downloaded stay
PdfDownloadButtonSequential_mount ==
    /\ storage # "none"
    /\ flow.pc = "done"
    /\ \E k2 \in SecondReading(now) :
          /\ flow' = MountedSequential(flow.n, now, k2)
          /\ now' = k2
    /\ UNCHANGED <<formVars, stored, log, tabs, storeVars, pdfs, tick, envVars>>

\* part_002 lines 221-240 (downloadPdf) and the share handlers after it: the
\* buttons are there once a blob is held; the number in the filename and in
\* the message is currentInvoiceNumber || "INV-0001"
shareSequential(handler) ==
    /\ flow.pdfBlob # <<>>
    /\ call' = [fn |-> handler, arg |-> flow.pdfBlob,
                out |-> IF flow.currentInvoiceNumber = <<>> THEN INV0001
                        ELSE flow.currentInvoiceNumber]
    /\ UNCHANGED <<formVars, counterVars, storeVars, flowVars, storage>>

NextSequential ==
    \/ InvoiceCounter_generateInvoiceNumber
    \/ generatePdfSequential
    \/ generatePdfSequential_render
    \/ resetInvoiceCounter
    \/ PdfDownloadButtonSequential_mount
    \/ \E handler \in ShareHandlers : shareSequential(handler)
    \/ Tick

SpecSequential == InitSequential /\ [][NextSequential]_vars

(***************************************************************************)
(* THE FORM'S ARITHMETIC ON JAVASCRIPT NUMBERS                             *)
(* (src/components/order-form.tsx lines 64-71)                             *)
(*                                                                         *)
(* A JavaScript number is an IEEE 754 binary64 value.  A finite one is     *)
(* held as [s, m, e]: sign s (1 or -1), significand m as a sequence of     *)
(* bits, most significant first, of at most 53 bits, without leading or    *)
(* trailing zeros, and exponent e; its value is s * m * 2^e.  Zero is      *)
(* [1, <<>>, 0].  Every operation computes the exact result and rounds it  *)
(* to 53 bits, to nearest, ties to even.  The amounts of an invoice are    *)
(* far from the overflow and subnormal ranges, which are left out.         *)
(***************************************************************************)
PrecisionBits == 53

Front(a) == IF a = <<>> THEN <<>> ELSE SubSeq(a, 1, Len(a) - 1)

Zeros(n) == [i \in 1..n |-> 0]

StripLeading(a) ==
    IF \A i \in 1..Len(a) : a[i] = 0 THEN <<>>
    ELSE LET first == CHOOSE i \in 1..Len(a) : a[i] = 1 /\ \A j \in 1..(i - 1) : a[j] = 0
         IN SubSeq(a, first, Len(a))

\* Long numbers are computed in limbs of LimbBits bits, most significant
\* limb first.
LimbBits == 15
Base == 2 ^ LimbBits

RECURSIVE BitsValue(_)
BitsValue(b) == IF b = <<>> THEN 0 ELSE 2 * BitsValue(Front(b)) + b[Len(b)]

ToLimbs(a) ==
    LET n == (Len(a) + LimbBits - 1) \div LimbBits
        padded == Zeros(n * LimbBits - Len(a)) \o a
    IN [i \in 1..n |-> BitsValue(SubSeq(padded, (i - 1) * LimbBits + 1, i * LimbBits))]

FromLimbs(x) ==
    StripLeading([i \in 1..(LimbBits * Len(x)) |->
        (x[((i - 1) \div LimbBits) + 1] \div (2 ^ (LimbBits - 1 - ((i - 1) % LimbBits)))) % 2])

RECURSIVE LimbsAddCarry(_, _, _)
LimbsAddCarry(x, y, c) ==
    IF x = <<>> /\ y = <<>>
    THEN IF c = 0 THEN <<>> ELSE <<c>>
    ELSE LET t == (IF x = <<>> THEN 0 ELSE x[Len(x)])
                  + (IF y = <<>> THEN 0 ELSE y[Len(y)]) + c
         IN Append(LimbsAddCarry(Front(x), Front(y), t \div Base), t % Base)

BitsAdd(a, b) == FromLimbs(LimbsAddCarry(ToLimbs(a), ToLimbs(b), 0))

\* x - y for x >= y
RECURSIVE LimbsSubBorrow(_, _, _)
LimbsSubBorrow(x, y, c) ==
    IF x = <<>> THEN <<>>
    ELSE LET t == x[Len(x)] - (IF y = <<>> THEN 0 ELSE y[Len(y)]) - c
         IN Append(LimbsSubBorrow(Front(x), Front(y), IF t < 0 THEN 1 ELSE 0),
                   IF t < 0 THEN t + Base ELSE t)

BitsSub(a, b) == FromLimbs(LimbsSubBorrow(ToLimbs(a), ToLimbs(b), 0))

\* a < b, for bit sequences without leading zeros
BitsLess(a, b) ==
    IF Len(a) # Len(b) THEN Len(a) < Len(b)
    ELSE \E i \in 1..Len(a) : a[i] < b[i] /\ \A j \in 1..(i - 1) : a[j] = b[j]

RECURSIVE BitsOfNat(_)
BitsOfNat(n) == IF n = 0 THEN <<>> ELSE Append(BitsOfNat(n \div 2), n % 2)

\* x * k for a natural number k < Base
RECURSIVE LimbsTimes(_, _, _)
LimbsTimes(x, k, c) ==
    IF x = <<>>
    THEN IF c = 0 THEN <<>> ELSE <<c>>
    ELSE LET t == x[Len(x)] * k + c
         IN Append(LimbsTimes(Front(x), k, t \div Base), t % Base)

BitsTimes(a, k) == FromLimbs(LimbsTimes(ToLimbs(a), k, 0))

\* quotient and remainder of x by a natural number 0 < k < Base (long division)
RECURSIVE LimbsDivide(_, _)
LimbsDivide(x, k) ==
    IF x = <<>> THEN [q |-> <<>>, r |-> 0]
    ELSE LET p == LimbsDivide(Front(x), k)
             t == p.r * Base + x[Len(x)]
         IN [q |-> Append(p.q, t \div k), r |-> t % k]

BitsDivide(a, k) ==
    LET d == LimbsDivide(ToLimbs(a), k)
    IN [q |-> FromLimbs(d.q), r |-> d.r]

Zero == [s |-> 1, m |-> <<>>, e |-> 0]

\* the canonical form: no trailing zeros in the significand
Normal(s, m, e) ==
    IF \A i \in 1..Len(m) : m[i] = 0 THEN Zero
    ELSE LET last == CHOOSE i \in 1..Len(m) : m[i] = 1 /\ \A j \in (i + 1)..Len(m) : m[j] = 0
         IN [s |-> s, m |-> SubSeq(m, 1, last), e |-> e + (Len(m) - last)]

\* s * m * 2^e (and more, below the last bit of m, when sticky) rounded to
\* PrecisionBits bits, to nearest, ties to even
RoundToDouble(s, m, e, sticky) ==
    IF Len(m) <= PrecisionBits THEN Normal(s, m, e)
    ELSE LET d == Len(m) - PrecisionBits
             keep == SubSeq(m, 1, PrecisionBits)
             guard == m[PrecisionBits + 1]
             rest == sticky \/ \E i \in (PrecisionBits + 2)..Len(m) : m[i] = 1
             up == guard = 1 /\ (rest \/ keep[PrecisionBits] = 1)
         IN Normal(s, IF up THEN BitsAdd(keep, <<1>>) ELSE keep, e + d)

NumberOfNat(n) == Normal(1, BitsOfNat(n), 0)

\* x * k for a number x and a natural number k
NumberTimesNat(x, k) == RoundToDouble(x.s, BitsTimes(x.m, k), x.e, FALSE)

\* x / k for a number x and a natural number k > 0
NumberOverNat(x, k) ==
    LET shift == PrecisionBits + 11
        d == BitsDivide(x.m \o Zeros(shift), k)
    IN IF x.m = <<>> THEN Zero
       ELSE RoundToDouble(x.s, d.q, x.e - shift, d.r # 0)

Min(a, b) == IF a < b THEN a ELSE b

\* x + y and x - y for numbers x >= 0 and y >= 0
NumberPlus(x, y) ==
    LET e == Min(x.e, y.e)
        a == IF x.m = <<>> THEN <<>> ELSE x.m \o Zeros(x.e - e)
        b == IF y.m = <<>> THEN <<>> ELSE y.m \o Zeros(y.e - e)
    IN RoundToDouble(1, BitsAdd(a, b), e, FALSE)

NumberMinus(x, y) ==
    LET e == Min(x.e, y.e)
        a == IF x.m = <<>> THEN <<>> ELSE x.m \o Zeros(x.e - e)
        b == IF y.m = <<>> THEN <<>> ELSE y.m \o Zeros(y.e - e)
    IN IF BitsLess(a, b) THEN RoundToDouble(-1, BitsSub(b, a), e, FALSE)
       ELSE RoundToDouble(1, BitsSub(a, b), e, FALSE)

IsNegative(x) == x.s = -1 /\ x.m # <<>>

\* x <= y for a number x and a number y >= 0
AtMost(x, y) == ~IsNegative(NumberMinus(y, IF IsNegative(x) THEN Zero ELSE x))

\* Number.parseFloat of a decimal string with two decimals, given in hundredths:
\* the number nearest to c / 100
parseFloatHundredths(c) == NumberOverNat(NumberOfNat(c), 100)

\* what is typed into the form: quantities (Number.parseInt), rates with two
\* decimals in hundredths (0.07, 0.14, 0.5, 19.99), whole discounts
MaxQuantity == 3
TypedWholeQuantities == 0..MaxQuantity
TypedHundredths == {0, 7, 14, 50, 1999}
TypedWholeDiscounts == {0, 10, 50, 100}

Line(q, c) == [quantity |-> q, rate |-> parseFloatHundredths(c)]

\* the item lists: every single line, and every line followed by 2 x 0.50
ItemLists ==
    {<<Line(q, c)>> : q \in TypedWholeQuantities, c \in TypedHundredths}
    \cup {<<Line(q, c), Line(2, 50)>> : q \in TypedWholeQuantities, c \in TypedHundredths}

\* line 65: items.reduce((sum, item) => sum + item.quantity * item.rate, 0)
RECURSIVE reduce(_, _)
reduce(its, sum) ==
    IF its = <<>> THEN sum
    ELSE reduce(Tail(its), NumberPlus(sum, NumberTimesNat(its[1].rate, its[1].quantity)))

subtotalOf(its) == reduce(its, Zero)

\* line 68: (subtotal * discount) / 100
discountAmountOf(sub, d) == NumberOverNat(NumberTimesNat(sub, d), 100)

\* line 71: subtotal - discountAmount
totalOf(sub, amount) == NumberMinus(sub, amount)

totals(arg) ==
    LET sub == subtotalOf(arg.items)
        amount == discountAmountOf(sub, arg.discount)
    IN [subtotal |-> sub, discountAmount |-> amount, total |-> totalOf(sub, amount)]

InitCalculation ==
    /\ FormStart
    /\ CounterIdle
    /\ StoreIdle
    /\ FlowIdle
    /\ storage = "ok"
    /\ call \in {[fn |-> "", arg |-> [items |-> its, discount |-> d], out |-> <<>>] :
                    its \in ItemLists, d \in TypedWholeDiscounts}

\* lines 64-71: one rendering of the form computes the three amounts
calculate ==
    /\ call.fn = ""
    /\ call' = [call EXCEPT !.fn = "totals", !.out = totals(call.arg)]
    /\ UNCHANGED <<formVars, counterVars, storeVars, flowVars, storage>>

NextCalculation == calculate

SpecCalculation == InitCalculation /\ [][NextCalculation]_vars

(***************************************************************************)
(* DOCUMENT RENDERER (src/components/pdf-invoice.tsx) AND THE FORMATTERS   *)
(*                                                                         *)
(* The renderer is handed whatever its caller has, so a JavaScript value   *)
(* is held with its type: [t |-> "undefined"], [t |-> "null"],             *)
(* [t |-> "number", n |-> n] (NaN is [t |-> "nan"], whose typeof is also   *)
(* "number"), [t |-> "string", str |-> s], [t |-> "date", day |-> day] (the    *)
(* Invalid Date has day -1), [t |-> "array", seq |-> sequence] and           *)
(* [t |-> "object", rec |-> record].  Amounts are whole rupees.              *)
(***************************************************************************)
JsUndefined == [t |-> "undefined"]
JsNull == [t |-> "null"]
JsNaN == [t |-> "nan"]
JsNumber(n) == [t |-> "number", n |-> n]
JsString(str) == [t |-> "string", str |-> str]
JsDate(day) == [t |-> "date", day |-> day]
JsArray(seq) == [t |-> "array", seq |-> seq]
JsObject(rec) == [t |-> "object", rec |-> rec]

JsInvalidDate == JsDate(NoDate)

\* typeof x === "number"
TypeofNumber(x) == x.t \in {"number", "nan"}

\* ToBoolean(x), as in `x || y` and `x && y`
Truthy(x) ==
    CASE x.t \in {"undefined", "null", "nan"} -> FALSE
      [] x.t = "number" -> x.n # 0
      [] x.t = "string" -> x.str # ""
      [] OTHER -> TRUE

\* x || y
Or(x, y) == IF Truthy(x) THEN x ELSE y

\* ToNumber(x), for the values at hand: a string that is no numeral is NaN
ToNumber(x) ==
    CASE x.t = "number" -> x
      [] x.t = "null" -> JsNumber(0)
      [] x.t = "string" /\ x.str = "" -> JsNumber(0)
      [] OTHER -> JsNaN

\* x * y
Times(x, y) ==
    IF ToNumber(x).t = "number" /\ ToNumber(y).t = "number"
    THEN JsNumber(ToNumber(x).n * ToNumber(y).n)
    ELSE JsNaN

\* the rupee sign U+20B9, one character of the formatted text
RUPEE == "Rs"

\* en-IN grouping: the last three digits, then groups of two
RECURSIVE GroupPairs(_)
GroupPairs(ds) ==
    IF Len(ds) <= 2 THEN ds
    ELSE GroupPairs(SubSeq(ds, 1, Len(ds) - 2)) \o <<",">> \o SubSeq(ds, Len(ds) - 1, Len(ds))

GroupIndian(ds) ==
    IF Len(ds) <= 3 THEN ds
    ELSE GroupPairs(SubSeq(ds, 1, Len(ds) - 3)) \o <<",">> \o SubSeq(ds, Len(ds) - 2, Len(ds))

\* new Intl.NumberFormat("en-IN", {style: "currency", currency: "INR",
\* maximumFractionDigits: 2}).format(x): the argument is converted with
\* ToNumber; NaN is written as NaN after the currency sign
IntlFormat(x) ==
    LET n == ToNumber(x)
    IN IF n.t = "nan" THEN <<RUPEE, "N", "a", "N">>
       ELSE (IF n.n < 0 THEN <<"-">> ELSE <<>>)
            \o <<RUPEE>> \o GroupIndian(NatToString(IF n.n < 0 THEN -n.n ELSE n.n))
            \o <<".", "0", "0">>

ZeroAmount == <<RUPEE, "0", ".", "0", "0">>

\* pdf-invoice.tsx lines 234-243
formatCurrencyPdf(amount) ==
    IF ~TypeofNumber(amount) \/ amount.t = "nan" THEN ZeroAmount
    ELSE IntlFormat(amount)

\* order-form.tsx lines 74-80
formatCurrencyForm(amount) == IntlFormat(amount)

\* admin-dashboard.tsx lines 382-388
formatCurrencyDashboard(amount) == IntlFormat(amount)

\* the values handed to a formatter
Amounts ==
    {JsNumber(n) : n \in {0, 225, 1999, 123456, 0 - 5}}
    \cup {JsNaN, JsUndefined, JsNull, JsString("bad")}

\* data?.field: undefined when data is undefined or null
Field(data, f) == IF data.t = "object" THEN data.rec[f] ELSE JsUndefined

\* pdf-invoice.tsx lines 246-257
validateInvoiceData(data) ==
    [customerName |-> Or(Field(data, "customerName"), JsString("Customer Name")),
     date |-> Or(Field(data, "date"), JsDate(SomeDay)),
     items |-> IF Field(data, "items").t = "array"
               THEN SelectSeq(Field(data, "items").seq,
                              LAMBDA item : Truthy(item) /\ item.t \in {"object", "array", "date"})
               ELSE <<>>,
     discount |-> IF TypeofNumber(Field(data, "discount"))
                  THEN Field(data, "discount") ELSE JsNumber(0),
     subtotal |-> IF TypeofNumber(Field(data, "subtotal"))
                  THEN Field(data, "subtotal") ELSE JsNumber(0),
     discountAmount |-> IF TypeofNumber(Field(data, "discountAmount"))
                        THEN Field(data, "discountAmount") ELSE JsNumber(0),
     total |-> IF TypeofNumber(Field(data, "total"))
               THEN Field(data, "total") ELSE JsNumber(0),
     invoiceNumber |-> Or(Field(data, "invoiceNumber"), JsString("INV-0001"))]

\* a table that leaves the body empty when there are no items
TableRows_NoPlaceholder(its) ==
    [i \in 1..Len(its) |->
        [style |-> IF (i - 1) % 2 = 0 THEN "tableRow" ELSE "tableRowAlt",
         name |-> Or(Field(its[i], "name"), JsString("Unnamed Item")),
         quantity |-> Or(Field(its[i], "quantity"), JsNumber(0)),
         rate |-> formatCurrencyPdf(Or(Field(its[i], "rate"), JsNumber(0))),
         amount |-> formatCurrencyPdf(Times(Or(Field(its[i], "quantity"), JsNumber(0)),
                                            Or(Field(its[i], "rate"), JsNumber(0))))]]

\* pdf-invoice.tsx lines 310-328: the rows of the items table; the index of
\* map starts at 0
TableRows(its) ==
    IF Len(its) > 0
    THEN [i \in 1..Len(its) |->
            [style |-> IF (i - 1) % 2 = 0 THEN "tableRow" ELSE "tableRowAlt",
             name |-> Or(Field(its[i], "name"), JsString("Unnamed Item")),
             quantity |-> Or(Field(its[i], "quantity"), JsNumber(0)),
             rate |-> formatCurrencyPdf(Or(Field(its[i], "rate"), JsNumber(0))),
             amount |-> formatCurrencyPdf(Times(Or(Field(its[i], "quantity"), JsNumber(0)),
                                                Or(Field(its[i], "rate"), JsNumber(0))))]]
    ELSE <<[style |-> "tableRow", name |-> JsString("No items"),
            quantity |-> JsNumber(0), rate |-> ZeroAmount, amount |-> ZeroAmount]>>

\* pdf-invoice.tsx lines 260-360.  Lines 293 and 296 need a valid Date:
\* date-fns format throws RangeError for the Invalid Date, and getTime is no
\* function of a string.
InvoicePDF(data) ==
    LET validatedData == validateInvoiceData(data)
    IN IF validatedData.date.t # "date" \/ validatedData.date = JsInvalidDate
       THEN [raised |-> TRUE]
       ELSE [raised |-> FALSE,
             invoiceNumber |-> validatedData.invoiceNumber,
             customerName |-> validatedData.customerName,
             date |-> validatedData.date.day,
             dueDate |-> validatedData.date.day + 30,
             items |-> validatedData.items,
             rows |-> TableRows(validatedData.items),
             subtotal |-> formatCurrencyPdf(validatedData.subtotal),
             discount |-> validatedData.discount,
             discountAmount |-> formatCurrencyPdf(validatedData.discountAmount),
             total |-> formatCurrencyPdf(validatedData.total)]

\* what callers hand to the renderer, field by field
GoodLine == JsObject([id |-> JsString("1"), name |-> JsString("Widget"),
                      quantity |-> JsNumber(2), rate |-> JsNumber(100)])
OtherLine == JsObject([id |-> JsString("2"), name |-> JsString("Gadget"),
                       quantity |-> JsNumber(3), rate |-> JsNumber(50)])
PoorLine == JsObject([id |-> JsUndefined, name |-> JsUndefined,
                      quantity |-> JsString("bad"), rate |-> JsUndefined])

CustomerNames == {JsUndefined, JsString(""), JsString("Acme")}
Dates == {JsUndefined, JsDate(SomeDay), JsString("2024-04-15"), JsInvalidDate}
ItemsValues ==
    {JsNull, JsUndefined, JsString("bad"), JsArray(<<>>), JsArray(<<GoodLine>>),
     JsArray(<<JsNull, JsString("x"), PoorLine>>),
     JsArray(<<OtherLine, JsNull, GoodLine, JsNumber(5), PoorLine>>)}
DiscountValues == {JsNumber(10), JsString("bad"), JsUndefined, JsNaN}
AmountTriples ==
    {[subtotal |-> JsNumber(200), discountAmount |-> JsNumber(20), total |-> JsNumber(180)],
     [subtotal |-> JsUndefined, discountAmount |-> JsUndefined, total |-> JsUndefined],
     [subtotal |-> JsString("200"), discountAmount |-> JsNaN, total |-> JsNull]}
InvoiceNumbers == {JsUndefined, JsString("INV-2024-04-0007")}

Datas ==
    {JsUndefined, JsNull}
    \cup {JsObject([customerName |-> c, date |-> d, items |-> i, discount |-> p,
                    subtotal |-> a.subtotal, discountAmount |-> a.discountAmount,
                    total |-> a.total, invoiceNumber |-> n]) :
            c \in CustomerNames, d \in Dates, i \in ItemsValues, p \in DiscountValues,
            a \in AmountTriples, n \in InvoiceNumbers}

InitRender ==
    /\ FormStart
    /\ CounterIdle
    /\ StoreIdle
    /\ FlowIdle
    /\ EnvIdle

\* a caller renders the document
renderInvoicePDF ==
    /\ call = NoCall
    /\ \E data \in Datas :
          call' = [fn |-> "InvoicePDF", arg |-> data, out |-> InvoicePDF(data)]
    /\ UNCHANGED <<formVars, counterVars, storeVars, flowVars, storage>>

\* the renderer, the form and the dashboard format an amount
callFormatCurrencyPdf ==
    /\ call = NoCall
    /\ \E amount \in Amounts :
          call' = [fn |-> "pdf-invoice formatCurrency", arg |-> amount,
                   out |-> formatCurrencyPdf(amount)]
    /\ UNCHANGED <<formVars, counterVars, storeVars, flowVars, storage>>

callFormatCurrencyForm ==
    /\ call = NoCall
    /\ \E amount \in Amounts :
          call' = [fn |-> "order-form formatCurrency", arg |-> amount,
                   out |-> formatCurrencyForm(amount)]
    /\ UNCHANGED <<formVars, counterVars, storeVars, flowVars, storage>>

callFormatCurrencyDashboard ==
    /\ call = NoCall
    /\ \E amount \in Amounts :
          call' = [fn |-> "admin-dashboard formatCurrency", arg |-> amount,
                   out |-> formatCurrencyDashboard(amount)]
    /\ UNCHANGED <<formVars, counterVars, storeVars, flowVars, storage>>

NextRender ==
    \/ renderInvoicePDF
    \/ callFormatCurrencyPdf
    \/ callFormatCurrencyForm
    \/ callFormatCurrencyDashboard

SpecRender == InitRender /\ [][NextRender]_vars

(***************************************************************************)
(* PUT and DELETE /api/invoices/[id] (src/unnamed/part_004), each of which *)
(* sends one statement to the store, together with POST.                   *)
(***************************************************************************)
\* an id of UUID format that no row has, and one that is no UUID
UnknownId == 99
MalformedId == 0

\* the bodies of PUT: the handler spreads whatever the body holds into the
\* update (lines 67-70)
Patches ==
    {[status |-> st] : st \in {"paid", "sent", "bogus", ""}}
    \cup {[invoice_number |-> n] : n \in {NumberA, NumberB}}
    \cup {[total |-> 999]}
    \cup {[invoice_number |-> NumberB, status |-> "cancelled"]}

\* the row after UPDATE ... SET of the patch's columns
Patched(row, patch) ==
    [f \in DOMAIN row |-> IF f \in DOMAIN patch THEN patch[f] ELSE row[f]]

\* an update that checks no constraint
UpdateError_Unchecked(old, new, down) == IF down THEN "unavailable" ELSE ""

\* part_006 lines 2-22: the error the store answers to the update of row old
\* into row new, "" when it accepts it
UpdateError(old, new, down) ==
    IF down THEN "unavailable"
    ELSE IF new.status \notin Statuses THEN "23514"
    ELSE IF \E r \in invoices \ {old} : r.invoice_number = new.invoice_number THEN "23505"
    ELSE ""

Answered(method, id, body, status, down) ==
    [method |-> method, pc |-> "done", n |-> req.n + 1, body |-> body, id |-> id,
     status |-> status, down |-> down,
     duplicate |-> FALSE,
     before |-> [invoices |-> invoices, invoice_items |-> invoice_items]]

RequestIds == {r.id : r \in invoices} \cup {UnknownId, MalformedId}

\* part_004 lines 54-91
PUT ==
    /\ req.pc \in {"idle", "done"}
    /\ req.n < MaxRequests
    /\ \E id \in RequestIds, patch \in Patches, down \in BOOLEAN :
          IF id = MalformedId
          THEN /\ req' = Answered("PUT", id, patch, 400, FALSE)
               /\ UNCHANGED invoices
          ELSE IF down
          THEN /\ req' = Answered("PUT", id, patch, 500, TRUE)
               /\ UNCHANGED invoices
          ELSE IF \A r \in invoices : r.id # id
          THEN /\ req' = Answered("PUT", id, patch, 404, FALSE)
               /\ UNCHANGED invoices
          ELSE LET old == CHOOSE r \in invoices : r.id = id
                   new == Patched(old, patch)
               IN IF UpdateError(old, new, down) # ""
                  THEN /\ req' = Answered("PUT", id, patch, 500, FALSE)
                       /\ UNCHANGED invoices
                  ELSE /\ req' = Answered("PUT", id, patch, 200, FALSE)
                       /\ invoices' = (invoices \ {old}) \cup {new}
    /\ UNCHANGED <<formVars, counterVars, invoice_items, nextId, flowVars, envVars>>

\* part_004 lines 93-118; deleting the header deletes its items (part_006
\* line 27, ON DELETE CASCADE)
DELETE ==
    /\ req.pc \in {"idle", "done"}
    /\ req.n < MaxRequests
    /\ \E id \in RequestIds, down \in BOOLEAN :
          IF id = MalformedId
          THEN /\ req' = Answered("DELETE", id, <<>>, 400, FALSE)
               /\ UNCHANGED <<invoices, invoice_items>>
          ELSE IF down
          THEN /\ req' = Answered("DELETE", id, <<>>, 500, TRUE)
               /\ UNCHANGED <<invoices, invoice_items>>
          ELSE /\ req' = Answered("DELETE", id, <<>>, 200, FALSE)
               /\ invoices' = {r \in invoices : r.id # id}
               /\ invoice_items' = {it \in invoice_items : it.invoice_id # id}
    /\ UNCHANGED <<formVars, counterVars, nextId, flowVars, envVars>>

NextStoreRequests ==
    \/ POST
    \/ POST_insertInvoice
    \/ POST_insertItems
    \/ POST_rollback
    \/ PUT
    \/ DELETE

SpecStoreRequests == InitStore /\ [][NextStoreRequests]_vars

(***************************************************************************)
(* GET /api/invoices (src/app/api/invoices/route.ts lines 4-97): the list  *)
(* of the dashboard, with its two statements to the store, together with   *)
(* POST.  The answer is held in call.out, with the table as it was when    *)
(* the last statement was answered.                                        *)
(***************************************************************************)
UpperCase == <<"A", "B", "C", "D", "E", "F", "G", "H", "I", "J", "K", "L", "M",
               "N", "O", "P", "Q", "R", "S", "T", "U", "V", "W", "X", "Y", "Z">>
LowerCase == <<"a", "b", "c", "d", "e", "f", "g", "h", "i", "j", "k", "l", "m",
               "n", "o", "p", "q", "r", "s", "t", "u", "v", "w", "x", "y", "z">>

Lower(s) ==
    [i \in 1..Len(s) |->
        IF \E k \in 1..26 : UpperCase[k] = s[i]
        THEN LowerCase[CHOOSE k \in 1..26 : UpperCase[k] = s[i]]
        ELSE s[i]]

\* column ILIKE %term%, for a term without wildcards
ilike(value, term) ==
    \E i \in 0..(Len(value) - Len(term)) :
        SubSeq(Lower(value), i + 1, i + Len(term)) = Lower(term)

\* the characters of the customer names at hand
NameChars(name) ==
    IF name = "Acme" THEN <<"A", "c", "m", "e">> ELSE <<>>

\* the search parameters of a request: ?page, ?limit, ?search, ?status, with
\* the handler's defaults for those not given (lines 7-12) except that the
\* limit is 2 rather than 10; the sort is the default one
BaseQuery == [page |-> 1, limit |-> 2, search |-> <<>>, status |-> ""]

Queries ==
    {BaseQuery,
     [BaseQuery EXCEPT !.status = "all"],
     [BaseQuery EXCEPT !.status = "paid"],
     [BaseQuery EXCEPT !.search = <<"v", "-", "b">>],
     [BaseQuery EXCEPT !.limit = 1, !.status = "draft"],
     [BaseQuery EXCEPT !.limit = 1, !.page = 2, !.status = "draft"]}

\* lines 31-41: the rows the filters of the query let through.  No row has a
\* customer_email (POST stores null when the body has none).
Filtered(rows, q) ==
    {r \in rows :
        /\ q.search # <<>> => \/ ilike(NameChars(r.customer_name), q.search)
                              \/ ilike(r.invoice_number, q.search)
        /\ (q.status # "" /\ q.status # "all") => r.status = q.status}

\* lines 43-45: order by created_at descending; rows are created in the order
\* of their ids
RECURSIVE Ordered(_)
Ordered(rows) ==
    IF rows = {} THEN <<>>
    ELSE LET first == CHOOSE r \in rows : \A o \in rows : o.id <= r.id
         IN <<first>> \o Ordered(rows \ {first})

\* lines 15 and 48: range(offset, offset + limit - 1)
Range(seq, q) ==
    LET offset == (q.page - 1) * q.limit
        last == IF offset + q.limit < Len(seq) THEN offset + q.limit ELSE Len(seq)
    IN SubSeq(seq, offset + 1, last)

\* Math.ceil(a / b) for b > 0
Ceil(a, b) == (a + b - 1) \div b

\* lines 57-59 and 74-90: the count is taken by a query of its own over the
\* whole table, with neither the search nor the status filter
PaginationOf(rows, q) ==
    LET totalCount == Cardinality(rows)
        totalPages == Ceil(totalCount, q.limit)
    IN [currentPage |-> q.page, totalPages |-> totalPages, totalItems |-> totalCount,
        itemsPerPage |-> q.limit, hasNextPage |-> q.page < totalPages,
        hasPrevPage |-> q.page > 1]

NoPagination == PaginationOf({}, BaseQuery)

\* lines 4-55: the first statement, the page of the filtered and ordered rows.
\* One list request is followed, sent while no POST is under way; POST
\* requests may arrive between its two statements and after it.
GET_select ==
    /\ call.fn = ""
    /\ req.pc \in {"idle", "done"}
    /\ \E q \in Queries, down \in BOOLEAN :
          call' = [fn |-> "GET", arg |-> q,
                   out |-> IF down
                           THEN [pc |-> "done", status |-> 500, invoices |-> <<>>,
                                 pagination |-> NoPagination, table |-> invoices]
                           ELSE [pc |-> "count", status |-> 0,
                                 invoices |-> Range(Ordered(Filtered(invoices, q)), q),
                                 pagination |-> NoPagination, table |-> invoices]]
    /\ UNCHANGED <<formVars, counterVars, storeVars, flowVars, storage>>

\* lines 57-93: the second statement, the count, and the answer
GET_count ==
    /\ call.fn = "GET"
    /\ call.out.pc = "count"
    /\ \E down \in BOOLEAN :
          call' = [call EXCEPT
                     !.out = IF down
                             THEN [pc |-> "done", status |-> 500, invoices |-> <<>>,
                                   pagination |-> NoPagination, table |-> invoices]
                             ELSE [call.out EXCEPT
                                     !.pc = "done", !.status = 200,
                                     !.pagination = PaginationOf(invoices, call.arg),
                                     !.table = invoices]]
    /\ UNCHANGED <<formVars, counterVars, storeVars, flowVars, storage>>

NextInvoiceList ==
    \/ POST
    \/ POST_insertInvoice
    \/ POST_insertItems
    \/ POST_rollback
    \/ GET_select
    \/ GET_count

SpecInvoiceList == InitStore /\ [][NextInvoiceList]_vars

(***************************************************************************)
(* PROPERTIES                                                              *)
(***************************************************************************)

\* the sum of quantity * rate over the items, taken from the last item back
RECURSIVE SumOfAmounts(_)
SumOfAmounts(s) ==
    IF s = <<>> THEN 0
    ELSE SumOfAmounts(SubSeq(s, 1, Len(s) - 1)) + s[Len(s)].quantity * s[Len(s)].rate

\* the quantities and rates of the items, in order
Lines(s) == [i \in 1..Len(s) |-> <<s[i].quantity, s[i].rate>>]

ScenarioOne == Lines(items) = <<<<2, 100>>, <<1, 50>>>> /\ discount = 10

Calls(op) == {i \in 1..Len(log) : log[i].op = op}

\* no resetCounter or setCounter among the calls i..j
NoResetBetween(i, j) == \A k \in i..j : log[k].op \notin {"reset", "set"}

\* C2: generateInvoiceNumber calls with no resetCounter or setCounter between
\* them return pairwise distinct codes, whatever counter value was persisted
\* when the session started.
C2_ConsecutiveCodesDistinct ==
    \A i, j \in Calls("generate") :
        i < j /\ NoResetBetween(i, j) => log[i].code # log[j].code

\* three allocations in a row, running from 9998 into five digits
C2_Witness ==
    \E i \in Calls("generate") :
        /\ log[i].counter = 9998
        /\ {i + 1, i + 2} \subseteq Calls("generate")

\* C3: over the calls the UI makes (generateInvoiceNumber,
\* getCurrentInvoiceNumber, resetCounter), no two generateInvoiceNumber calls
\* return the same code.
C3_GloballyUnique ==
    Calls("set") = {} =>
        \A i, j \in Calls("generate") : i < j => log[i].code # log[j].code

\* C4: two tabs running generateInvoiceNumber on one localStorage never observe
\* the same pre-increment value and never return the same code.
C4_NoSharedPreIncrement ==
    \A i, j \in Calls("generate") :
        i < j => /\ log[i].counter # log[j].counter
                 /\ log[i].code # log[j].code

\* the code the scheme INV-YYYY-MM-NNNN gives counter value n at clock reading k
CodeAt(n, k) ==
    <<"I", "N", "V", "-">> \o toString(k \div 12) \o <<"-">>
        \o PadStart(toString((k % 12) + 1), 2, "0") \o <<"-">>
        \o PadStart(toString(n), 4, "0")

\* the counter value a stored string stands for: 1 when nothing is stored
CounterOf(st) == IF st = Null THEN 1 ELSE ParseInt(st)

\* C9: generateInvoiceNumber with persisted counter n returns the code of n for
\* the year and month of the allocation and leaves n + 1 persisted; counter 7
\* in April 2024 gives INV-2024-04-0007 and leaves 8.
C9_AllocationCode ==
    \A i \in Calls("generate") :
        LET n == CounterOf(log[i].before)
        IN /\ \E k \in {log[i].yearAt, log[i].monthAt} : log[i].code = CodeAt(n, k)
           /\ log[i].after = toString(n + 1)
           /\ (n = 7 /\ log[i].yearAt = April2024 /\ log[i].monthAt = April2024) =>
                 /\ log[i].code = <<"I", "N", "V", "-", "2", "0", "2", "4", "-",
                                    "0", "4", "-", "0", "0", "0", "7">>
                 /\ log[i].after = <<"8">>

\* calls i and i + 1 read the clock in one and the same month
SameMonth(i) ==
    {log[i].yearAt, log[i].monthAt, log[i + 1].yearAt, log[i + 1].monthAt}
        = {log[i].yearAt}

\* C10: getCurrentInvoiceNumber leaves the persisted counter as it was, and the
\* call that follows it in the same month, another peek or a
\* generateInvoiceNumber, returns the same code.
C10_PeekIsPure ==
    \A i \in Calls("peek") :
        /\ log[i].after = log[i].before
        /\ (i < Len(log) /\ log[i + 1].op \in {"peek", "generate"} /\ SameMonth(i)) =>
              log[i + 1].code = log[i].code

\* peek, peek, generate in one month
C10_Witness ==
    \E i \in Calls("peek") :
        /\ i + 2 <= Len(log)
        /\ log[i + 1].op = "peek"
        /\ log[i + 2].op = "generate"
        /\ SameMonth(i)
        /\ SameMonth(i + 1)

\* C5: once a POST request has been answered, whatever statements to the store
\* failed, no invoice is persisted without items, and the header of a request
\* whose items insert failed is gone.
C5_NoHeaderWithoutItems ==
    req.pc = "done" =>
        /\ \A r \in invoices : \E i \in invoice_items : i.invoice_id = r.id
        /\ (req.id # 0 /\ req.status # 201) => \A r \in invoices : r.id # req.id

\* the request would have been accepted had its invoice number been new
AcceptableButForNumber(body) ==
    /\ ~MissingRequired(body)
    /\ body.invoice_date # InvalidDate
    /\ body.status \in Statuses \cup {""}

\* C6: a POST whose invoice_number is already persisted is never answered 201
\* and leaves both tables as they were (no new invoice row, no invoice_items
\* row); when the body is well formed otherwise and the store is reachable,
\* the answer is 409.
C6_DuplicateAnswered409 ==
    (req.pc = "done" /\ req.duplicate) =>
        /\ (AcceptableButForNumber(req.body) /\ ~req.down) => req.status = 409
        /\ req.status # 201
        /\ invoices = req.before.invoices
        /\ invoice_items = req.before.invoice_items

C6_Witness ==
    /\ req.pc = "done"
    /\ req.duplicate
    /\ req.status = 409
    /\ invoices # {}

\* C7: in the saving creation flow an invoice number is persisted only if a PDF
\* carrying it is produced: once a run has ended, every persisted invoice
\* number is the number of a PDF that was rendered.
C7_NoRecordWithoutArtifact ==
    flow.pc = "done" =>
        \A r \in invoices : r.invoice_number \in pdfs

\* C8: when a save is answered 409, the run makes another save with a fresh
\* code before it ends.
C8_RetriesAfterConflict ==
    flow.pc = "done" =>
        \A i \in 1..Len(flow.saves) :
            flow.saves[i].status = 409 =>
                \E j \in (i + 1)..Len(flow.saves) :
                    flow.saves[j].code # flow.saves[i].code

\* C11: where the counter's store is out of reach, every generateInvoiceNumber
\* call throws, returns no code and leaves the store as it was, and a
\* generatePdf run ends with the Error toast and no PDF.
C11_UnreachableStoreFails ==
    storage # "ok" =>
        /\ \A i \in 1..Len(log) :
              log[i].op = "generate" =>
                  /\ log[i].code = Threw
                  /\ log[i].after = log[i].before
        /\ pdfs = {}
        /\ (flow.n > 0 /\ flow.pc = "done") =>
              (flow.toast = "Error" /\ ~flow.rendered /\ flow.invoiceNumber = <<>>)

C11_Witness ==
    /\ storage = "full"
    /\ flow.pc = "done"
    /\ flow.toast = "Error"
    /\ Len(log) = 2
    /\ log[1].code = Threw

\* C14: after any sequence of form edits every item of the form state has
\* quantity >= 0 and rate >= 0, and no item contributes a negative amount to
\* the subtotal.
C14_ItemsNonNegative ==
    \A i \in 1..Len(items) :
        /\ items[i].quantity >= 0
        /\ items[i].rate >= 0
        /\ items[i].quantity * items[i].rate >= 0

\* C15: after any sequence of edits the discount held in the form state, and
\* handed to the calculation and to the PDF, lies in [0,100].
C15_DiscountInRange ==
    /\ 0 <= discount /\ discount <= 100
    /\ 0 <= invoiceData.discount /\ invoiceData.discount <= 100

\* C12: for every item list with quantities and rates >= 0 and every discount
\* in [0,100], subtotal, discountAmount and total are each >= 0 and
\* total <= subtotal.
C12_AmountsNonNegative ==
    (call.fn = "totals" /\ call.arg.discount <= 100) =>
        /\ ~IsNegative(call.out.subtotal)
        /\ ~IsNegative(call.out.discountAmount)
        /\ ~IsNegative(call.out.total)
        /\ AtMost(call.out.total, call.out.subtotal)

\* C13: discountAmount is 0 when the discount is 0, and total is 0 when the
\* discount is 100 and subtotal > 0.
C13_DiscountEndpoints ==
    call.fn = "totals" =>
        /\ call.arg.discount = 0 => call.out.discountAmount = Zero
        /\ (call.arg.discount = 100 /\ call.out.subtotal # Zero) => call.out.total = Zero

\* the input of the specification's example: items null, customerName
\* undefined, discount "bad", nothing else given
ExampleData ==
    JsObject([customerName |-> JsUndefined, date |-> JsUndefined, items |-> JsNull,
              discount |-> JsString("bad"), subtotal |-> JsUndefined,
              discountAmount |-> JsUndefined, total |-> JsUndefined,
              invoiceNumber |-> JsUndefined])

\* C16: InvoicePDF raises for no input, whatever fields are missing or wrongly
\* typed, and for the example input the document shows the default customer
\* label, no items and zero amounts.
C16_RendererTotal ==
    call.fn = "InvoicePDF" =>
        /\ ~call.out.raised
        /\ call.arg = ExampleData =>
              /\ call.out.customerName = JsString("Customer Name")
              /\ call.out.items = <<>>
              /\ call.out.subtotal = ZeroAmount
              /\ call.out.discountAmount = ZeroAmount
              /\ call.out.total = ZeroAmount
              /\ call.out.discount = JsNumber(0)

IsFormatter(fn) ==
    fn \in {"pdf-invoice formatCurrency", "order-form formatCurrency",
            "admin-dashboard formatCurrency"}

\* C17: every formatter returns the zero-amount string, the one it returns for
\* 0, for NaN, undefined and a string that is no number.
C17_FormattersZeroForNaN ==
    (IsFormatter(call.fn) /\ call.arg \in {JsNaN, JsUndefined, JsString("bad")}) =>
        call.out = ZeroAmount

\* the body has all it takes for POST to create the invoice
ValidBody(body) ==
    /\ body.invoice_number \notin {Undefined, <<>>}
    /\ body.customer_name # ""
    /\ body.invoice_date \notin {NoDate, InvalidDate}
    /\ body.items # <<>>
    /\ \A i \in 1..Len(body.items) : body.items[i].id # Undefined
    /\ body.status \in Statuses \cup {""}

\* C18: a POST whose body lacks invoice_number, customer_name, invoice_date or
\* items, or whose items list is empty, is answered 400 and persists nothing;
\* a valid body with a new invoice number, the store being up, is answered 201
\* and the created record is persisted with its items, with status draft when
\* the body names none and with due date the invoice date plus 30 days.
C18_PostValidation ==
    (req.method = "POST" /\ req.pc = "done") =>
        /\ (\/ req.body.invoice_number \in {Undefined, <<>>}
            \/ req.body.customer_name = ""
            \/ req.body.invoice_date = NoDate
            \/ req.body.items = <<>>)
           => /\ req.status = 400
              /\ invoices = req.before.invoices
              /\ invoice_items = req.before.invoice_items
        /\ (ValidBody(req.body) /\ ~req.duplicate /\ ~req.down) => req.status = 201
        /\ req.status = 201 =>
              /\ ValidBody(req.body)
              /\ \E r \in invoices :
                    /\ r.id = req.id
                    /\ r \notin req.before.invoices
                    /\ r.invoice_number = req.body.invoice_number
                    /\ r.customer_name = req.body.customer_name
                    /\ r.invoice_date = req.body.invoice_date
                    /\ r.due_date = req.body.invoice_date + 30
                    /\ r.status = IF req.body.status = "" THEN "draft" ELSE req.body.status
              /\ \A i \in 1..Len(req.body.items) :
                    \E it \in invoice_items :
                        it.invoice_id = req.id /\ it.item_id = req.body.items[i].id

C18_Witness ==
    /\ req.method = "POST"
    /\ req.pc = "done"
    /\ req.status = 201
    /\ req.body.status = ""
    /\ \E r \in invoices : r.id = req.id /\ r.status = "draft" /\ r.due_date = SomeDay + 30
    /\ req.n = 2

\* C19: in every reachable state of the store, whatever POST, PUT and DELETE
\* requests were made, no two persisted invoices have the same invoice_number.
C19_InvoiceNumbersUnique ==
    \A r1 \in invoices, r2 \in invoices :
        r1.invoice_number = r2.invoice_number => r1 = r2

\* two invoices are persisted, and a PUT that would have given one of them
\* the number of the other has been refused
C19_Witness ==
    /\ Cardinality(invoices) = 2
    /\ req.method = "PUT"
    /\ req.pc = "done"
    /\ "invoice_number" \in DOMAIN req.body
    /\ \E r \in invoices : r.id # req.id /\ r.invoice_number = req.body.invoice_number
    /\ \E r \in invoices : r.id = req.id
    /\ ~req.down
    /\ req.status = 500

\* the request carries a status that is none of the five
CarriesOtherStatus ==
    \/ req.method = "POST" /\ req.body.status \notin Statuses \cup {""}
    \/ req.method = "PUT" /\ "status" \in DOMAIN req.body /\ req.body.status \notin Statuses

\* C20: in every reachable state of the store, whatever POST and PUT requests
\* were made, the status of every persisted invoice is one of draft, sent,
\* paid, overdue, cancelled, and a request that carried any other status has
\* changed nothing.
C20_StatusConstrained ==
    /\ \A r \in invoices : r.status \in Statuses
    /\ (req.pc = "done" /\ CarriesOtherStatus) =>
          /\ invoices = req.before.invoices
          /\ invoice_items = req.before.invoice_items

\* a PUT with status bogus for a persisted invoice has been refused
C20_Witness ==
    /\ req.method = "PUT"
    /\ req.pc = "done"
    /\ req.body = [status |-> "bogus"]
    /\ \E r \in invoices : r.id = req.id
    /\ ~req.down
    /\ req.status = 500

\* C21: a DELETE for an id of UUID format that no persisted invoice has is
\* not answered as a success (it is answered 404 when the store is up), and
\* after a DELETE answered as a success neither the invoice nor any of its
\* items is in the store.
C21_DeleteUnknownIsNotFound ==
    (req.method = "DELETE" /\ req.pc = "done") =>
        /\ (req.id # MalformedId /\ \A r \in req.before.invoices : r.id # req.id) =>
              /\ req.status # 200
              /\ ~req.down => req.status = 404
        /\ req.status = 200 =>
              /\ \A r \in invoices : r.id # req.id
              /\ \A it \in invoice_items : it.invoice_id # req.id

\* the persisted item rows of invoice id, and the sum of quantity * rate over
\* a set of item rows
ItemsOf(id) == {it \in invoice_items : it.invoice_id = id}

RECURSIVE SumOfRows(_)
SumOfRows(rows) ==
    IF rows = {} THEN 0
    ELSE LET it == CHOOSE x \in rows : TRUE
         IN it.quantity * it.rate + SumOfRows(rows \ {it})

\* C22: every persisted invoice whose items are persisted has subtotal equal
\* to the sum of quantity * rate over those items, discount_amount equal to
\* subtotal * discount / 100 and total equal to subtotal - discount_amount,
\* after POST and after any later PUT.
C22_StoredTotalsDerived ==
    \A r \in invoices :
        ItemsOf(r.id) # {} =>
            /\ r.subtotal = SumOfRows(ItemsOf(r.id))
            /\ r.discount_amount * 100 = r.subtotal * r.discount
            /\ r.total = r.subtotal - r.discount_amount

\* the toasts shown so far in the run
Shown == {flow.toasts[i] : i \in 1..Len(flow.toasts)}

LastChars(s, n) == SubSeq(s, Len(s) - n + 1, Len(s))

\* C24: whatever the persisted counter was, after resetCounter it is 1, and
\* the generateInvoiceNumber call that follows returns a code whose sequence
\* part is 0001 (and a getCurrentInvoiceNumber that follows shows the same).
C24_ResetRestoresInitialState ==
    \A i \in Calls("reset") :
        /\ log[i].after = <<"1">>
        /\ getCurrentCounter(log[i].after) = 1
        /\ (i < Len(log) /\ log[i + 1].op \in {"generate", "peek"}) =>
              /\ log[i + 1].counter = 1
              /\ LastChars(log[i + 1].code, 5) = <<"-", "0", "0", "0", "1">>
        /\ i = Len(log) => /\ stored = <<"1">>
                           /\ getTotalInvoicesGenerated = 0

\* a counter that had run into five digits, reset, and the next allocation
C24_Witness ==
    \E i \in Calls("reset") :
        /\ i > 1
        /\ log[i - 1].op = "generate"
        /\ log[i - 1].counter = 9999
        /\ i < Len(log)
        /\ log[i + 1].op = "generate"

\* the sequence of items a caller handed to the renderer, empty when it
\* handed no array
GivenItems(data) ==
    IF data.t = "object" /\ data.rec.items.t = "array" THEN data.rec.items.seq ELSE <<>>

\* the positions of a sequence that hold an object (not null, not a value of
\* another type), and the k-th of them in input order
ObjectPositions(seq) ==
    {i \in 1..Len(seq) : seq[i].t \notin {"null", "undefined", "nan", "number", "string"}}

NthPosition(seq, k) ==
    CHOOSE i \in ObjectPositions(seq) :
        Cardinality({j \in ObjectPositions(seq) : j < i}) = k - 1

\* C25: the items table of a rendered document has one row for each entry of
\* the given items that is an object, in input order, the rows taking the two
\* backgrounds in turn from the first, each with the amount quantity * rate
\* of its item; when no entry is an object it has the single row No items with
\* quantity 0 and zero amounts.
C25_ItemRows ==
    (call.fn = "InvoicePDF" /\ ~call.out.raised) =>
        LET given == GivenItems(call.arg)
            count == Cardinality(ObjectPositions(given))
            rows == call.out.rows
        IN IF count = 0
           THEN rows = <<[style |-> "tableRow", name |-> JsString("No items"),
                          quantity |-> JsNumber(0), rate |-> ZeroAmount,
                          amount |-> ZeroAmount]>>
           ELSE /\ Len(rows) = count
                /\ \A k \in 1..count :
                      LET item == given[NthPosition(given, k)]
                      IN /\ call.out.items[k] = item
                         /\ rows[k].style = IF k % 2 = 1 THEN "tableRow" ELSE "tableRowAlt"
                         /\ (item.t = "object" /\ item.rec.name.t = "string"
                               /\ item.rec.name.str # "") => rows[k].name = item.rec.name
                         /\ (item.t = "object" /\ item.rec.quantity.t = "number"
                               /\ item.rec.rate.t = "number") =>
                               rows[k].amount =
                                   IntlFormat(JsNumber(item.rec.quantity.n * item.rec.rate.n))

\* five entries given, three of them objects: three rows in input order
C25_Witness ==
    /\ call.fn = "InvoicePDF"
    /\ ~call.out.raised
    /\ Len(GivenItems(call.arg)) = 5
    /\ Len(call.out.rows) = 3
    /\ call.out.rows[1].name = JsString("Gadget")
    /\ call.out.rows[2].name = JsString("Widget")
    /\ call.out.rows[2].style = "tableRowAlt"
    /\ call.out.rows[3].style = "tableRow"

\* the date a caller handed to the renderer
GivenDate(data) == IF data.t = "object" THEN data.rec.date ELSE JsUndefined

\* C26: when the date handed to the renderer is absent, is the Invalid Date or
\* is no Date at all, the renderer does not raise and shows the current date
\* as invoice date and the day 30 days later as due date.
C26_DateFallback ==
    (/\ call.fn = "InvoicePDF"
     /\ \/ GivenDate(call.arg).t # "date"
        \/ GivenDate(call.arg) = JsInvalidDate) =>
        /\ ~call.out.raised
        /\ call.out.date = SomeDay
        /\ call.out.dueDate = SomeDay + 30

\* C27: after any sequence of addItem and removeItem, two addItem calls at one
\* clock reading included, no two items of the form's list have the same id
\* (so that removeItem(id) and updateItem(id, ...) act on exactly one item).
C27_ItemIdsUnique ==
    \A i, j \in 1..Len(items) : i # j => items[i].id # items[j].id

\* C28: whenever a handler downloads or shares the blob the component holds,
\* the invoice number it puts in the filename and in the message is the number
\* embedded in that PDF.
C28_ShareCarriesPdfNumber ==
    call.fn \in ShareHandlers => call.out = call.arg

\* C29: a GET /api/invoices with a search or a status filter is answered with
\* pagination that describes the filtered rows: totalItems is the number of
\* invoices that pass the filters, totalPages is ceil(totalItems / limit), and
\* hasNextPage holds exactly when a later page has a matching invoice.
C29_PaginationOfFilteredSet ==
    (/\ call.fn = "GET"
     /\ call.out.pc = "done"
     /\ call.out.status = 200
     /\ \/ call.arg.search # <<>>
        \/ call.arg.status \notin {"", "all"}) =>
        LET matching == Cardinality(Filtered(call.out.table, call.arg))
            p == call.out.pagination
        IN /\ p.totalItems = matching
           /\ p.totalPages = Ceil(matching, call.arg.limit)
           /\ p.hasNextPage <=> call.arg.page * call.arg.limit < matching

\* the calls of the log that wrote: a generateInvoiceNumber that returned a
\* code, a resetCounter that did not throw
Returned(i) == log[i].op = "generate" /\ log[i].code # Threw

LastReset ==
    IF \E i \in 1..Len(log) : log[i].op = "reset" /\ log[i].code # Threw
    THEN CHOOSE i \in 1..Len(log) :
            /\ log[i].op = "reset" /\ log[i].code # Threw
            /\ \A j \in (i + 1)..Len(log) : ~(log[j].op = "reset" /\ log[j].code # Threw)
    ELSE 0

\* what getTotalInvoicesGenerated answered when the session began
TotalAtStart ==
    getCurrentCounterIn(storage, IF log = <<>> THEN stored ELSE log[1].before).value - 1

\* C30: in the sequential variant getTotalInvoicesGenerated is the number of
\* generateInvoiceNumber calls that returned since the last resetCounter (added
\* to the total the session began with when there was no reset), the calls
\* whose PDF then failed to render included; every such call advances the
\* counter by one, and nothing but the calls of the counter changes it.
C30_TotalCountsAllocations ==
    /\ ~getCurrentCounterIn(storage, stored).threw =>
          getCurrentCounterIn(storage, stored).value - 1
              = (IF LastReset = 0 THEN TotalAtStart ELSE 0)
                + Cardinality({i \in (LastReset + 1)..Len(log) : Returned(i)})
    /\ \A i \in 1..Len(log) :
          /\ Returned(i) => getCurrentCounter(log[i].after) = getCurrentCounter(log[i].before) + 1
          /\ (log[i].op = "generate" /\ ~Returned(i)) => log[i].after = log[i].before
          /\ i < Len(log) => log[i + 1].before = log[i].after
          /\ i = Len(log) => stored = log[i].after

\* a reset, an allocation for a run whose render failed, and another allocation
C30_Witness ==
    /\ storage = "ok"
    /\ LastReset > 0
    /\ Len(log) = LastReset + 2
    /\ Returned(LastReset + 1)
    /\ Returned(LastReset + 2)
    /\ flow.pc = "done"
    /\ ~flow.rendered
    /\ flow.invoiceNumber \in {log[LastReset + 1].code, log[LastReset + 2].code}
    /\ getCurrentCounter(stored) - 1 = 2
====
